---- MODULE Spec2Model ----
(***************************************************************************)
(* Cluster reporter (src/main.go): session bootstrap, then an endless      *)
(* poll loop that runs five list queries and one get query against the     *)
(* cluster API, prints a report and sleeps.                                *)
(*                                                                         *)
(* The cluster API client is the environment.  `cluster` holds the answer  *)
(* the API server currently gives to each of the six queries; it may       *)
(* change between two iterations of the loop.  A change to a resource      *)
(* while an iteration runs is observed by the program either in that       *)
(* iteration or in the next one, exactly as a change made between the two, *)
(* because each query reads one resource kind once.                        *)
(*                                                                         *)
(* Standard output is modelled per iteration: `out` is the sequence of     *)
(* lines written since the top of the loop body.  A line is the format     *)
(* string of the print statement and its formatted arguments.  Turkish     *)
(* letters of the source's message texts are written in ASCII.             *)
(***************************************************************************)
EXTENDS Integers, Sequences, FiniteSets, TLC

\* Bounds of the model.
MaxItems == 1
MaxClaims == 2

VARIABLES
    pc,       \* position of main
    bootErr,  \* which bootstrap step returned an error: "none", "config", "client"
    cluster,  \* the API server's current answer to each query
    out,      \* lines printed in the current loop iteration
    calls,    \* queries issued in the current loop iteration
    ref       \* history: the report of the first iteration completed since the
              \* cluster last changed

vars == <<pc, bootErr, cluster, out, calls, ref>>

----------------------------------------------------------------------------
\* Formatting.

Digit == <<"0", "1", "2", "3", "4", "5", "6", "7", "8", "9">>

\* %d of a non-negative int: its decimal digits, most significant first.
RECURSIVE Itoa(_)
Itoa(n) ==
    IF n < 10 THEN <<Digit[n + 1]>>
    ELSE Itoa(n \div 10) \o <<Digit[(n % 10) + 1]>>

\* %s / %v of a string value.
Str(s) == <<s>>

\* One printed line: the format string and the formatted arguments.
Line(f, args) == [fmt |-> f, args |-> args]

----------------------------------------------------------------------------
\* Errors and values of the API client.

Nil == [kind |-> "nil", reason |-> "", message |-> ""]

\* A typed API status error (*errors.StatusError) with its reason and message.
StatusError(reason, message) ==
    [kind |-> "status", reason |-> reason, message |-> message]

\* Any other error value (transport, client side).
OtherError(message) == [kind |-> "other", reason |-> "", message |-> message]

\* err.Error(); for a StatusError it is ErrStatus.Message.
ErrorText(err) == err.message

\* errors.IsNotFound: the error's status reason is NotFound.
IsNotFound(err) == err.kind = "status" /\ err.reason = "NotFound"

\* err.(*errors.StatusError): the dynamic type is *StatusError.
IsStatus(err) == err.kind = "status"

ClaimBound == "Bound"

\* The phases a listed claim is in: bound, or one that is not.
ClaimPhases == {"Bound", "Pending"}

namespace == "default"
podName == "alpine-deployment-548dbddc9b-dnq9r"

----------------------------------------------------------------------------
\* Answers the API server can give.

ListErrors == {OtherError("connection refused")}

\* n opaque items of a list response.
Items(n) == [i \in 1..n |-> i]

CountResponses ==
    [err : {Nil}, items : {Items(n) : n \in 0..MaxItems}]
    \cup [err : ListErrors, items : {<<>>}]

ClaimNames == <<"pvc-a", "pvc-b", "pvc-c", "pvc-d">>

\* Claim lists: the i-th claim of a list is named ClaimNames[i].
ClaimLists ==
    UNION {{[i \in 1..n |-> [name |-> ClaimNames[i], phase |-> ph[i]]] :
              ph \in [1..n -> ClaimPhases]} : n \in 0..MaxClaims}

ClaimResponses ==
    [err : {Nil}, items : ClaimLists] \cup [err : ListErrors, items : {<<>>}]

NoPod == [phase |-> "", podIP |-> "", nodeName |-> ""]

PodValues ==
    {[phase |-> "Running", podIP |-> "10.0.0.7", nodeName |-> "node-1"],
     [phase |-> "Pending", podIP |-> "", nodeName |-> ""]}

GetErrors ==
    {StatusError("NotFound", "pods not found"),
     StatusError("Forbidden", "pods is forbidden"),
     OtherError("connection refused")}

GetResponses ==
    [err : {Nil}, pod : PodValues] \cup [err : GetErrors, pod : {NoPod}]

ResponsesOf(q) ==
    CASE q = "pvcs" -> ClaimResponses
      [] q = "pod" -> GetResponses
      [] OTHER -> CountResponses

Clusters ==
    [pods : CountResponses, namespaces : CountResponses, nodes : CountResponses,
     events : CountResponses, pvcs : ClaimResponses, pod : GetResponses]

----------------------------------------------------------------------------
\* The error types of the program.

NoNodesInKubernetesError == Line("Kubernetes cluster'inda hic node yok", <<>>)

PersistentVolumeClaimNotInStatusError(pvc, pvcStatusPhase) ==
    Line("PersistentVolumeClaim %s beklenen %v durumunda degil",
         <<Str(pvc.name), Str(pvcStatusPhase)>>)

----------------------------------------------------------------------------
\* The query helpers: the lines each prints for the answer it gets.

\* Mutant: the pod count is off by one.
checkPodsOffByOne(r) ==
    IF r.err # Nil
    THEN <<Line("Pod'lari listelerken hata olustu: %v", <<Str(ErrorText(r.err))>>)>>
    ELSE <<Line("Cluster'da %d pod var", <<Itoa(Len(r.items) + 1)>>)>>

checkPods(r) ==
    IF r.err # Nil
    THEN <<Line("Pod'lari listelerken hata olustu: %v", <<Str(ErrorText(r.err))>>)>>
    ELSE <<Line("Cluster'da %d pod var", <<Itoa(Len(r.items))>>)>>

checkNamespaces(r) ==
    IF r.err # Nil
    THEN <<Line("Namespace'leri listelerken hata olustu: %v", <<Str(ErrorText(r.err))>>)>>
    ELSE <<Line("Cluster'da %d namespace var", <<Itoa(Len(r.items))>>)>>

\* Mutant: an empty node list is reported as a count of 0.
checkNodesPlainCount(r) ==
    IF r.err # Nil
    THEN <<Line("Node'lari listelerken hata olustu: %v", <<Str(ErrorText(r.err))>>)>>
    ELSE <<Line("Cluster'da %d node var", <<Itoa(Len(r.items))>>)>>

checkNodes(r) ==
    IF r.err # Nil
    THEN <<Line("Node'lari listelerken hata olustu: %v", <<Str(ErrorText(r.err))>>)>>
    ELSE IF Len(r.items) = 0
         THEN <<NoNodesInKubernetesError>>
         ELSE <<Line("Cluster'da %d node var", <<Itoa(Len(r.items))>>)>>

checkEvents(r) ==
    IF r.err # Nil
    THEN <<Line("Event'leri listelerken hata olustu: %v", <<Str(ErrorText(r.err))>>)>>
    ELSE <<Line("Son 1 saatte %d event var", <<Itoa(Len(r.items))>>)>>

\* One pass of the range loop over pvcs.Items.
pvcLoopBody(pvc) ==
    LET expectedPhase == ClaimBound
    IN  IF pvc.phase # expectedPhase
        THEN <<PersistentVolumeClaimNotInStatusError(pvc, expectedPhase)>>
        ELSE <<>>

\* Mutant: the range loop stops at the first claim that is not bound.
RECURSIVE pvcLoopStopsAtFirst(_)
pvcLoopStopsAtFirst(items) ==
    IF items = <<>> THEN <<>>
    ELSE IF pvcLoopBody(Head(items)) # <<>>
         THEN pvcLoopBody(Head(items))
         ELSE pvcLoopStopsAtFirst(Tail(items))

RECURSIVE pvcLoop(_)
pvcLoop(items) ==
    IF items = <<>> THEN <<>>
    ELSE pvcLoopBody(Head(items)) \o pvcLoop(Tail(items))

\* Mutant: the error branch does not return.
checkPersistentVolumeClaimsNoReturn(r) ==
    (IF r.err # Nil
     THEN <<Line("PersistentVolumeClaim'leri listelerken hata olustu: %v",
                 <<Str(ErrorText(r.err))>>)>>
     ELSE <<>>)
    \o <<Line("Cluster'da %d PersistentVolumeClaim var", <<Itoa(Len(r.items))>>)>>
    \o pvcLoop(r.items)

checkPersistentVolumeClaims(r) ==
    IF r.err # Nil
    THEN <<Line("PersistentVolumeClaim'leri listelerken hata olustu: %v",
                <<Str(ErrorText(r.err))>>)>>
    ELSE <<Line("Cluster'da %d PersistentVolumeClaim var", <<Itoa(Len(r.items))>>)>>
         \o pvcLoop(r.items)

\* Mutant: the branch for errors that are no status errors is missing.
checkSpecificPodNoGenericBranch(r, ns, name) ==
    IF IsNotFound(r.err)
    THEN <<Line("Pod %s namespace %s icinde bulunamadi", <<Str(name), Str(ns)>>)>>
    ELSE IF IsStatus(r.err)
    THEN <<Line("Pod %s namespace %s icinde alinan hata: %v",
                <<Str(name), Str(ns), Str(r.err.message)>>)>>
    ELSE <<Line("Pod %s namespace %s icinde bulundu", <<Str(name), Str(ns)>>),
           Line("Pod durumu: %s", <<Str(r.pod.phase)>>),
           Line("Pod IP: %s", <<Str(r.pod.podIP)>>),
           Line("Node: %s", <<Str(r.pod.nodeName)>>)>>

\* Mutant: the type test for a status error comes before the not-found test.
checkSpecificPodStatusFirst(r, ns, name) ==
    IF IsStatus(r.err)
    THEN <<Line("Pod %s namespace %s icinde alinan hata: %v",
                <<Str(name), Str(ns), Str(r.err.message)>>)>>
    ELSE IF IsNotFound(r.err)
    THEN <<Line("Pod %s namespace %s icinde bulunamadi", <<Str(name), Str(ns)>>)>>
    ELSE IF r.err # Nil
    THEN <<Line("Pod bilgisi alinirken hata olustu: %v", <<Str(ErrorText(r.err))>>)>>
    ELSE <<Line("Pod %s namespace %s icinde bulundu", <<Str(name), Str(ns)>>),
           Line("Pod durumu: %s", <<Str(r.pod.phase)>>),
           Line("Pod IP: %s", <<Str(r.pod.podIP)>>),
           Line("Node: %s", <<Str(r.pod.nodeName)>>)>>

checkSpecificPod(r, ns, name) ==
    IF IsNotFound(r.err)
    THEN <<Line("Pod %s namespace %s icinde bulunamadi", <<Str(name), Str(ns)>>)>>
    ELSE IF IsStatus(r.err)
    THEN <<Line("Pod %s namespace %s icinde alinan hata: %v",
                <<Str(name), Str(ns), Str(r.err.message)>>)>>
    ELSE IF r.err # Nil
    THEN <<Line("Pod bilgisi alinirken hata olustu: %v", <<Str(ErrorText(r.err))>>)>>
    ELSE <<Line("Pod %s namespace %s icinde bulundu", <<Str(name), Str(ns)>>),
           Line("Pod durumu: %s", <<Str(r.pod.phase)>>),
           Line("Pod IP: %s", <<Str(r.pod.podIP)>>),
           Line("Node: %s", <<Str(r.pod.nodeName)>>)>>

----------------------------------------------------------------------------
\* main.

NoRef == [set |-> FALSE, out |-> <<>>]

Init ==
    /\ pc = "buildConfig"
    /\ bootErr = "none"
    /\ cluster \in Clusters
    /\ out = <<>>
    /\ calls = <<>>
    /\ ref = NoRef

\* Mutant: the error of BuildConfigFromFlags is ignored.
BuildConfigIgnoresError ==
    /\ pc = "buildConfig"
    /\ \E ok \in BOOLEAN :
         IF ok THEN pc' = "newClient" /\ bootErr' = bootErr
         ELSE pc' = "newClient" /\ bootErr' = "config"
    /\ UNCHANGED <<cluster, out, calls, ref>>

\* clientcmd.BuildConfigFromFlags; panic on error.
BuildConfig ==
    /\ pc = "buildConfig"
    /\ \E ok \in BOOLEAN :
         IF ok THEN pc' = "newClient" /\ bootErr' = bootErr
         ELSE pc' = "panicked" /\ bootErr' = "config"
    /\ UNCHANGED <<cluster, out, calls, ref>>

\* kubernetes.NewForConfig; panic on error.
NewForConfig ==
    /\ pc = "newClient"
    /\ \E ok \in BOOLEAN :
         IF ok THEN pc' = "top" /\ bootErr' = bootErr
         ELSE pc' = "panicked" /\ bootErr' = "client"
    /\ UNCHANGED <<cluster, out, calls, ref>>

\* Mutant: the header is printed by the first pass only.
PrintHeaderOnce ==
    /\ pc = "top"
    /\ out' = IF ref.set THEN out ELSE out \o <<Line("Cluster Durumu:", <<>>)>>
    /\ pc' = "pods"
    /\ UNCHANGED <<bootErr, cluster, calls, ref>>

\* for { fmt.Println("Cluster Durumu:")
PrintHeader ==
    /\ pc = "top"
    /\ out' = out \o <<Line("Cluster Durumu:", <<>>)>>
    /\ pc' = "pods"
    /\ UNCHANGED <<bootErr, cluster, calls, ref>>

StepCheckPods ==
    /\ pc = "pods"
    /\ out' = out \o checkPods(cluster.pods)
    /\ calls' = Append(calls, "pods")
    /\ pc' = "namespaces"
    /\ UNCHANGED <<bootErr, cluster, ref>>

\* Mutant: a failed namespace listing abandons the rest of the sweep.
StepCheckNamespacesAbortOnError ==
    /\ pc = "namespaces"
    /\ out' = out \o checkNamespaces(cluster.namespaces)
    /\ calls' = Append(calls, "namespaces")
    /\ pc' = IF cluster.namespaces.err # Nil THEN "sep" ELSE "nodes"
    /\ UNCHANGED <<bootErr, cluster, ref>>

StepCheckNamespaces ==
    /\ pc = "namespaces"
    /\ out' = out \o checkNamespaces(cluster.namespaces)
    /\ calls' = Append(calls, "namespaces")
    /\ pc' = "nodes"
    /\ UNCHANGED <<bootErr, cluster, ref>>

\* Mutant: an empty node list is raised as a fatal error.
StepCheckNodesPanicsOnNoNodes ==
    /\ pc = "nodes"
    /\ out' = out \o checkNodes(cluster.nodes)
    /\ calls' = Append(calls, "nodes")
    /\ pc' = IF cluster.nodes.err = Nil /\ Len(cluster.nodes.items) = 0
             THEN "panicked" ELSE "events"
    /\ UNCHANGED <<bootErr, cluster, ref>>

StepCheckNodes ==
    /\ pc = "nodes"
    /\ out' = out \o checkNodes(cluster.nodes)
    /\ calls' = Append(calls, "nodes")
    /\ pc' = "events"
    /\ UNCHANGED <<bootErr, cluster, ref>>

StepCheckEvents ==
    /\ pc = "events"
    /\ out' = out \o checkEvents(cluster.events)
    /\ calls' = Append(calls, "events")
    /\ pc' = "pvcs"
    /\ UNCHANGED <<bootErr, cluster, ref>>

StepCheckPersistentVolumeClaims ==
    /\ pc = "pvcs"
    /\ out' = out \o checkPersistentVolumeClaims(cluster.pvcs)
    /\ calls' = Append(calls, "pvcs")
    /\ pc' = "detail"
    /\ UNCHANGED <<bootErr, cluster, ref>>

\* fmt.Println("\nDetayli pod kontrolu:"): an empty line, then the text.
PrintDetailHeader ==
    /\ pc = "detail"
    /\ out' = out \o <<Line("", <<>>), Line("Detayli pod kontrolu:", <<>>)>>
    /\ pc' = "pod"
    /\ UNCHANGED <<bootErr, cluster, calls, ref>>

StepCheckSpecificPod ==
    /\ pc = "pod"
    /\ out' = out \o checkSpecificPod(cluster.pod, namespace, podName)
    /\ calls' = Append(calls, "pod")
    /\ pc' = "sep"
    /\ UNCHANGED <<bootErr, cluster, ref>>

\* fmt.Println("\n-----------------------------------")
PrintSeparator ==
    /\ pc = "sep"
    /\ out' = out \o <<Line("", <<>>), Line("-----------------------------------", <<>>)>>
    /\ pc' = "sleep"
    /\ UNCHANGED <<bootErr, cluster, calls, ref>>

\* time.Sleep(10 * time.Second) }: the iteration ends, the next one starts
\* with nothing printed and nothing asked.
Sleep ==
    /\ pc = "sleep"
    /\ ref' = IF ref.set THEN ref ELSE [set |-> TRUE, out |-> out]
    /\ out' = <<>>
    /\ calls' = <<>>
    /\ pc' = "top"
    /\ UNCHANGED <<bootErr, cluster>>

Main ==
    \/ BuildConfig
    \/ NewForConfig
    \/ PrintHeader
    \/ StepCheckPods
    \/ StepCheckNamespaces
    \/ StepCheckNodes
    \/ StepCheckEvents
    \/ StepCheckPersistentVolumeClaims
    \/ PrintDetailHeader
    \/ StepCheckSpecificPod
    \/ PrintSeparator
    \/ Sleep

\* Environment: between two iterations the answer to one query changes.
ClusterChange ==
    /\ pc = "top"
    /\ \E q \in DOMAIN cluster : \E r \in ResponsesOf(q) :
         /\ r # cluster[q]
         /\ cluster' = [cluster EXCEPT ![q] = r]
    /\ ref' = NoRef
    /\ UNCHANGED <<pc, bootErr, out, calls>>

Next == Main \/ ClusterChange

Spec == Init /\ [][Next]_vars

\* Every call of the client returns and every sleep ends.
FairSpec == Spec /\ WF_vars(Main)

----------------------------------------------------------------------------
\* Reading a report.

LoopPcs ==
    {"top", "pods", "namespaces", "nodes", "events", "pvcs", "detail", "pod",
     "sep", "sleep"}

ListQueries == {"pods", "namespaces", "nodes", "events", "pvcs"}
Counters == {"pods", "namespaces", "nodes", "events"}

\* The text of each helper's messages, as the operator reads them.
CountText ==
    [pods |-> "Cluster'da %d pod var",
     namespaces |-> "Cluster'da %d namespace var",
     nodes |-> "Cluster'da %d node var",
     events |-> "Son 1 saatte %d event var",
     pvcs |-> "Cluster'da %d PersistentVolumeClaim var"]

FailureText ==
    [pods |-> "Pod'lari listelerken hata olustu: %v",
     namespaces |-> "Namespace'leri listelerken hata olustu: %v",
     nodes |-> "Node'lari listelerken hata olustu: %v",
     events |-> "Event'leri listelerken hata olustu: %v",
     pvcs |-> "PersistentVolumeClaim'leri listelerken hata olustu: %v"]

NoNodesText == "Kubernetes cluster'inda hic node yok"
ViolationText == "PersistentVolumeClaim %s beklenen %v durumunda degil"
NotFoundText == "Pod %s namespace %s icinde bulunamadi"
StatusText == "Pod %s namespace %s icinde alinan hata: %v"
GenericText == "Pod bilgisi alinirken hata olustu: %v"
FoundText == "Pod %s namespace %s icinde bulundu"
PhaseText == "Pod durumu: %s"
AddressText == "Pod IP: %s"
NodeText == "Node: %s"
SeparatorText == "-----------------------------------"

\* The message texts that belong to each query.
TextsOf(q) ==
    CASE q = "nodes" -> {CountText[q], FailureText[q], NoNodesText}
      [] q = "pvcs" -> {CountText[q], FailureText[q], ViolationText}
      [] q = "pod" -> {NotFoundText, StatusText, GenericText, FoundText,
                        PhaseText, AddressText, NodeText}
      [] OTHER -> {CountText[q], FailureText[q]}

\* The lines of the current report that belong to query q, in print order.
LinesOf(q) == SelectSeq(out, LAMBDA l : l.fmt \in TextsOf(q))

LinesWith(text) == SelectSeq(out, LAMBDA l : l.fmt = text)

Issued(q) == \E i \in 1..Len(calls) : calls[i] = q

Failed(q) == cluster[q].err # Nil

\* The number a printed decimal stands for.
DigitValue(c) == CHOOSE d \in 0..9 : Digit[d + 1] = c

RECURSIVE Atoi(_)
Atoi(digits) ==
    IF Len(digits) = 0 THEN 0
    ELSE 10 * Atoi(SubSeq(digits, 1, Len(digits) - 1))
         + DigitValue(digits[Len(digits)])

----------------------------------------------------------------------------
\* The poll loop.

QueryOrder == <<"pods", "namespaces", "nodes", "events", "pvcs", "pod">>

\* How many queries main has issued when it stands at each place of the loop.
IssuedAt ==
    [top |-> 0, pods |-> 0, namespaces |-> 1, nodes |-> 2, events |-> 3,
     pvcs |-> 4, detail |-> 5, pod |-> 5, sep |-> 6, sleep |-> 6]

\* C1: in every iteration, whichever queries fail, the queries issued so far
\* are exactly the first ones of the fixed order pods, namespaces, nodes,
\* events, pvcs, pod, each once; the separator is printed only after all six,
\* once, as the last line, and main then stands at the sleep.
C1_FixedCompleteSweep ==
    pc \in LoopPcs =>
        /\ calls = SubSeq(QueryOrder, 1, IssuedAt[pc])
        /\ Len(LinesWith(SeparatorText)) = (IF pc = "sleep" THEN 1 ELSE 0)
        /\ pc = "sleep" =>
             /\ calls = QueryOrder
             /\ out[Len(out)].fmt = SeparatorText

\* An iteration in which all six queries failed has run to the sleep.
C1_Witness ==
    /\ pc = "sleep"
    /\ \A q \in ListQueries \cup {"pod"} : Failed(q)
    /\ calls = QueryOrder
    /\ Len(LinesWith(SeparatorText)) = 1

----------------------------------------------------------------------------
\* The resource counters.

\* The counts a counter reports in the current report.
ReportedCounts(q) ==
    LET ls == LinesWith(CountText[q])
    IN  [i \in 1..Len(ls) |-> Atoi(ls[i].args[1])]

C3_NodeCounter ==
    (Issued("nodes") /\ ~Failed("nodes")) =>
        LET N == Len(cluster.nodes.items)
            ls == LinesOf("nodes")
        IN  /\ Len(ls) = 1
            /\ N = 0 => ls[1].fmt = NoNodesText /\ ls[1].args = <<>>
            /\ N >= 1 => ls[1].fmt = CountText.nodes /\ Atoi(ls[1].args[1]) = N

\* The node counter has reported an empty cluster in a finished iteration.
C3_Witness ==
    /\ pc = "sleep"
    /\ ~Failed("nodes") /\ Len(cluster.nodes.items) = 0
    /\ LinesOf("nodes") = <<[fmt |-> NoNodesText, args |-> <<>>]>>
    /\ LinesWith(CountText.nodes) = <<>>

----------------------------------------------------------------------------
\* The volume-claim auditor.

\* The positions of the listed claims whose phase is not "Bound".
Unbound(items) == {i \in 1..Len(items) : items[i].phase # "Bound"}

\* The position in the list of the k-th claim that is not bound.
KthUnbound(items, k) ==
    CHOOSE i \in Unbound(items) :
        Cardinality({j \in Unbound(items) : j <= i}) = k

\* C4: on a successful claim list the auditor prints first the total-count
\* line, whose value is the length of the list whatever the phases, and then
\* one violation line per claim that is not bound, in list order, each naming
\* its claim and the expected phase; a bound claim is named by no line.
C4_ClaimAudit ==
    (Issued("pvcs") /\ ~Failed("pvcs")) =>
        LET items == cluster.pvcs.items
            ls == LinesOf("pvcs")
        IN  /\ Len(ls) = 1 + Cardinality(Unbound(items))
            /\ ls[1].fmt = CountText.pvcs
            /\ Atoi(ls[1].args[1]) = Len(items)
            /\ \A k \in 1..Cardinality(Unbound(items)) :
                 /\ ls[k + 1].fmt = ViolationText
                 /\ ls[k + 1].args =
                      <<<<items[KthUnbound(items, k)].name>>, <<"Bound">>>>
            /\ \A i \in 1..Len(items) :
                 items[i].phase = "Bound" =>
                     \A k \in 1..Len(ls) :
                         ls[k].fmt = ViolationText => ls[k].args[1] # <<items[i].name>>

\* A full list of mixed phases has been audited: its first claim is bound,
\* its last one is not.
C4_Witness ==
    /\ pc = "sleep" /\ ~Failed("pvcs")
    /\ Len(cluster.pvcs.items) = MaxClaims
    /\ cluster.pvcs.items[1].phase = "Bound"
    /\ cluster.pvcs.items[MaxClaims].phase # "Bound"
    /\ Len(LinesWith(ViolationText)) = Cardinality(Unbound(cluster.pvcs.items))
    /\ Len(LinesWith(ViolationText)) >= 1

----------------------------------------------------------------------------
\* Failed list queries.

\* C6: a list query that fails leaves exactly one line in the report, the
\* diagnostic carrying the error's text: no count line, no no-nodes line, no
\* violation line; and main goes on, it does not terminate.
C6_FailedListQuery ==
    \A q \in ListQueries :
        (Issued(q) /\ Failed(q)) =>
            /\ LinesOf(q) =
                 <<[fmt |-> FailureText[q], args |-> <<<<cluster[q].err.message>>>>]>>
            /\ pc \in LoopPcs

\* An iteration in which all five list queries failed has been reported.
C6_Witness ==
    /\ pc = "sleep"
    /\ \A q \in ListQueries : Failed(q) /\ Len(LinesOf(q)) = 1

----------------------------------------------------------------------------
\* The specific-workload inspector.

\* The lines each outcome of the get call is to print.
NotFoundLines ==
    <<[fmt |-> NotFoundText,
       args |-> <<<<"alpine-deployment-548dbddc9b-dnq9r">>, <<"default">>>>]>>

StatusLines(message) ==
    <<[fmt |-> StatusText,
       args |-> <<<<"alpine-deployment-548dbddc9b-dnq9r">>, <<"default">>,
                  <<message>>>>]>>

GenericLines(message) == <<[fmt |-> GenericText, args |-> <<<<message>>>>]>>

FoundLines(pod) ==
    <<[fmt |-> FoundText,
       args |-> <<<<"alpine-deployment-548dbddc9b-dnq9r">>, <<"default">>>>],
      [fmt |-> PhaseText, args |-> <<<<pod.phase>>>>],
      [fmt |-> AddressText, args |-> <<<<pod.podIP>>>>],
      [fmt |-> NodeText, args |-> <<<<pod.nodeName>>>>]>>

\* C5: the inspector's lines are those of exactly one outcome, decided by the
\* answer to the get call: not found, a status error, another error, success.
C5_FourOutcomes ==
    Issued("pod") =>
        LET r == cluster.pod
            ls == LinesOf("pod")
        IN  /\ (r.err.kind = "status" /\ r.err.reason = "NotFound")
                   => ls = NotFoundLines
            /\ (r.err.kind = "status" /\ r.err.reason # "NotFound")
                   => ls = StatusLines(r.err.message)
            /\ r.err.kind = "other" => ls = GenericLines(r.err.message)
            /\ r.err.kind = "nil" => ls = FoundLines(r.pod)

\* The inspector has reported a pod it fetched.
C5_Witness ==
    /\ pc = "sleep"
    /\ cluster.pod.err.kind = "nil" /\ cluster.pod.pod.phase = "Running"
    /\ Len(LinesOf("pod")) = 4

\* C10: a status error whose reason is not-found prints the not-found
\* message only, never the server's message; the status-error message is
\* printed only for status errors that are not not-found.
C10_NotFoundFirst ==
    Issued("pod") =>
        LET e == cluster.pod.err
        IN  /\ (e.kind = "status" /\ e.reason = "NotFound") =>
                 /\ LinesOf("pod") = NotFoundLines
                 /\ \A i \in 1..Len(out) : \A k \in 1..Len(out[i].args) :
                        out[i].args[k] # <<e.message>>
            /\ LinesWith(StatusText) # <<>> =>
                 e.kind = "status" /\ e.reason # "NotFound"

\* The inspector has handled a status error whose reason is not-found.
C10_Witness ==
    /\ pc = "sleep"
    /\ cluster.pod.err.kind = "status" /\ cluster.pod.err.reason = "NotFound"
    /\ LinesWith(NotFoundText) # <<>>

----------------------------------------------------------------------------
\* Bootstrap.

\* C7: once a bootstrap step has failed the process is in its fatal state:
\* the step is not tried again, no query has been issued, nothing has been
\* printed, and main is not in the poll loop.
C7_BootstrapFailureIsFatal ==
    bootErr # "none" =>
        /\ pc = "panicked"
        /\ calls = <<>>
        /\ out = <<>>

\* The client could not be constructed from a configuration that was built.
C7_Witness == bootErr = "client" /\ pc = "panicked"

----------------------------------------------------------------------------
\* Iterations.

C8_LoopsForever ==
    /\ [][(pc \in LoopPcs) => (pc' \in LoopPcs)]_vars
    /\ (pc \in LoopPcs \ {"sleep"}) ~> (pc = "sleep" /\ calls = QueryOrder)
    /\ (pc = "sleep") ~> (pc = "top" /\ calls = <<>>)

\* A second iteration has ended against a cluster with no nodes, a failed
\* list query, a claim that is not bound and no such pod.
C8_Witness ==
    /\ pc = "sleep" /\ ref.set
    /\ ~Failed("nodes") /\ Len(cluster.nodes.items) = 0
    /\ Failed("pods")
    /\ ~Failed("pvcs") /\ Unbound(cluster.pvcs.items) # {}
    /\ IsNotFound(cluster.pod.err)

====
